---- MODULE Spec2Model ----
(***************************************************************************)
(* Model of the research assistant: the per-session conversation memory    *)
(* (research-assistant/memory_manager.py), the provider dispatch           *)
(* (research-assistant/ai_client.py, research_assistant.py,                *)
(* personal-study-assistant/backend/app/ai_providers.py) and the research  *)
(* pipeline of the hosts (research-assistant/app.py, app-terminal.py).     *)
(*                                                                         *)
(* A Python str is modelled as a sequence of tokens, each token standing   *)
(* for a fixed run of characters; concatenation is \o, the empty string is *)
(* << >>.  A Python dict is a function whose DOMAIN is its key set.        *)
(***************************************************************************)
EXTENDS Integers, Sequences, FiniteSets, TLC

\* ------------------------------------------------------------------ bounds

\* Largest max_history_per_session a MemoryManager is constructed with.
MaxN == 2

\* Exchanges held by the history variable `appended`, over all ids: the
\* add_exchange calls explored between clear_session calls.
MaxAppended == 4

\* ----------------------------------------------------------------- strings

Max(a, b) == IF a >= b THEN a ELSE b

Min(a, b) == IF a <= b THEN a ELSE b

NL == "\n"

\* sep.join(parts)
RECURSIVE Join(_, _)
Join(parts, sep) ==
    IF Len(parts) = 0 THEN << >>
    ELSE IF Len(parts) = 1 THEN parts[1]
    ELSE parts[1] \o sep \o Join(Tail(parts), sep)

\* s.endswith(suffix)
EndsWith(s, suffix) ==
    /\ Len(suffix) <= Len(s)
    /\ SubSeq(s, Len(s) - Len(suffix) + 1, Len(s)) = suffix

\* ------------------------------------------------------------ input domains

SessionIds == {"s1", "s2"}

Queries == {<<"q1">>, <<"q2">>}

Responses == {<<"r1">>, <<"r2">>}

\* ----------------------------------------------------------- MemoryManager

VARIABLES
    conversation_history,  \* MemoryManager.conversation_history: id -> list of (q, a)
    max_history,           \* MemoryManager.max_history
    last,                  \* the call that returned last: [op, sid, ret]
    appended,              \* per id: the exchanges passed to add_exchange since the
                           \* id's last clear_session (history variable)
    seen                   \* the ids ever passed to add_exchange (history variable)

memVars == <<conversation_history, max_history, last, appended, seen>>

\* ---------------------------------------------- environment and providers

VARIABLES
    env,                  \* os.environ as os.getenv reads it: key -> value or None
    providers,            \* AIClient.providers: id -> [name, api_key, enabled]
    available_providers,  \* ResearchAssistant.available_providers
    aiCall                \* the provider call that returned last, what it was
                          \* given, what it invoked and what came back

aiVars == <<env, providers, available_providers, aiCall>>

\* ------------------------------------------------------------------ hosts

VARIABLES
    process,             \* which program runs: "app" (app.py), "terminal"
                         \* (app-terminal.py), "exited" after sys.exit, "none"
    serpapi_enabled,     \* WebSearchClient.serpapi_enabled
    google_pse_enabled,  \* WebSearchClient.google_pse_enabled
    current_provider,    \* TerminalResearchAssistant.current_provider
    use_web_search,      \* TerminalResearchAssistant.use_web_search
    session_id,          \* TerminalResearchAssistant.session_id
    inv,                 \* the pipeline invocation in progress: its locals, its
                         \* position pc and the calls it has made
    started              \* pipeline invocations started so far

hostVars ==
    <<process, serpapi_enabled, google_pse_enabled, current_provider, use_web_search,
      session_id, inv, started>>

\* ------------------------------------------------ components on their own

VARIABLES
    searchCall           \* the WebSearchClient.search call that returned last: its
                         \* arguments, what the backends did, what came back

VARIABLES
    threads,             \* per thread running a pipeline invocation on the shared
                         \* MemoryManager: its session id, position and locals
    heap,                \* the list objects conversation_history refers to, by
                         \* reference: ref -> list of (q, a)
    refs,                \* conversation_history as the threads see it: id -> ref
    alone,               \* per thread: conversation_history had the thread's
                         \* invocations run with no other thread (history variable)
    overlapped           \* a thread has taken a step while the other was inside an
                         \* invocation (history variable)

concVars == <<threads, heap, refs, alone, overlapped>>

VARIABLES
    genai_configure_calls  \* genai.configure calls made in the process so far

restVars == <<searchCall, concVars, genai_configure_calls>>

vars == <<memVars, aiVars, hostVars, restVars>>

\* os.getenv's None for a key that is not set.
None == "None"

\* bool(value) of an os.getenv result
Truthy(v) == v # None /\ v # ""

\* x in lst
InList(x, lst) == \E i \in 1..Len(lst) : lst[i] = x

\* The environment keys the code reads.
EnvKeys ==
    {"DEEPSEEK_API_KEY", "OPENAI_API_KEY", "ANTHROPIC_API_KEY", "GEMINI_API_KEY",
     "HUGGINGFACE_API_KEY", "GOOGLE_API_KEY", "GOOGLE_APPLICATION_CREDENTIALS",
     "SERPAPI_API_KEY", "GOOGLE_PSE_ID"}

\* What a key may hold: not set, empty, the .env placeholder, a real secret.
CredValues == {None, "", "your_api_key_here", "sk-live"}

\* The keys of AIClient.providers, in insertion order.
ProviderIds == <<"deepseek", "openai", "anthropic", "gemini", "huggingface">>

\* Provider arguments tried: the registry's ids and an id that is not in it.
ProviderArgs == {"deepseek", "openai", "anthropic", "gemini", "huggingface", "llama"}

ProviderEnvKey(p) ==
    CASE p = "deepseek" -> "DEEPSEEK_API_KEY"
      [] p = "openai" -> "OPENAI_API_KEY"
      [] p = "anthropic" -> "ANTHROPIC_API_KEY"
      [] p = "gemini" -> "GEMINI_API_KEY"
      [] p = "huggingface" -> "HUGGINGFACE_API_KEY"

\* providers[id]["name"]
ProviderName(p) ==
    CASE p = "deepseek" -> "DeepSeek"
      [] p = "openai" -> "OpenAI"
      [] p = "anthropic" -> "Anthropic"
      [] p = "gemini" -> "Google Gemini"
      [] p = "huggingface" -> "Hugging Face"

\* AIClient._initialize_providers: the registry built from the environment.
_initialize_providers_all_enabled(e) ==
    [p \in {ProviderIds[i] : i \in 1..Len(ProviderIds)} |->
        [name |-> ProviderName(p), api_key |-> e[ProviderEnvKey(p)], enabled |-> TRUE]]

_initialize_providers(e) ==
    [p \in {ProviderIds[i] : i \in 1..Len(ProviderIds)} |->
        [name    |-> ProviderName(p),
         api_key |-> e[ProviderEnvKey(p)],
         enabled |-> Truthy(e[ProviderEnvKey(p)])]]

\* The genai.configure calls AIClient.__init__ makes (ai_client.py:60-61):
\* one if the gemini provider is enabled.
GenaiConfigureAlways(provs) == 1

GenaiConfigure(provs) == IF provs["gemini"].enabled THEN 1 ELSE 0

\* AIClient.get_available_providers: the enabled ids in registry order.
get_available_providers(provs) ==
    SelectSeq(ProviderIds, LAMBDA p : provs[p].enabled)

\* The keys of ResearchAssistant.providers, in insertion order.
AssistantProviderIds == <<"deepseek", "openai", "anthropic">>

\* ResearchAssistant._check_available_providers
_check_available_providers(e) ==
    SelectSeq(AssistantProviderIds,
              LAMBDA p : Truthy(e[ProviderEnvKey(p)])
                         /\ e[ProviderEnvKey(p)] # "your_api_key_here")

\* The outcome of a Python call: a returned value or a raised exception whose
\* str() is value.
Return(v) == [raised |-> FALSE, value |-> v]

Raise(d) == [raised |-> TRUE, value |-> d]

\* What the transport (requests.post .. response.json() .. indexing) or the
\* vendor SDK does on one call: it yields the answer text, or it raises; text is
\* the answer, or str(e) of the exception.
OutcomeKinds ==
    {"ok", "transport_failure", "http_error", "malformed_body", "sdk_exception"}

AnswerText == <<"r1">>

ErrorDetail == <<"boom">>

Outcomes ==
    {[kind |-> k, text |-> IF k = "ok" THEN AnswerText ELSE ErrorDetail] :
        k \in OutcomeKinds}

NoOutcome == [kind |-> "none", text |-> << >>]

\* The body of an adapter's try block: the call and the extraction of the answer.
TransportCall(o) == IF o.kind = "ok" THEN Return(o.text) ELSE Raise(o.text)

\* try: <body> except Exception as e: return f"Error calling {name} API: {str(e)}"
ExceptToStringReraises(res, name) == res

ExceptToString(res, name) ==
    IF res.raised THEN Return(<<"Error calling ", name, " API: ">> \o res.value)
    ELSE res

\* AIClient._query_deepseek .. _query_huggingface
_query_deepseek(q, ctx, o) == ExceptToString(TransportCall(o), "DeepSeek")

_query_openai(q, ctx, o) == ExceptToString(TransportCall(o), "OpenAI")

_query_anthropic(q, ctx, o) == ExceptToString(TransportCall(o), "Anthropic")

_query_gemini(q, ctx, o) == ExceptToString(TransportCall(o), "Gemini")

_query_huggingface(q, ctx, o) == ExceptToString(TransportCall(o), "Hugging Face")

\* One adapter invocation, as the transport sees it.
AdapterCall(p, q, ctx) == [adapter |-> p, query |-> q, context |-> ctx]

\* AIClient.query: the value returned and the adapters invoked.
query_no_availability_check(provs, provider, q, ctx, o) ==
    IF provider = "deepseek" THEN
        [ret |-> _query_deepseek(q, ctx, o), calls |-> <<AdapterCall(provider, q, ctx)>>]
    ELSE IF provider = "openai" THEN
        [ret |-> _query_openai(q, ctx, o), calls |-> <<AdapterCall(provider, q, ctx)>>]
    ELSE IF provider = "anthropic" THEN
        [ret |-> _query_anthropic(q, ctx, o), calls |-> <<AdapterCall(provider, q, ctx)>>]
    ELSE IF provider = "gemini" THEN
        [ret |-> _query_gemini(q, ctx, o), calls |-> <<AdapterCall(provider, q, ctx)>>]
    ELSE IF provider = "huggingface" THEN
        [ret |-> _query_huggingface(q, ctx, o),
         calls |-> <<AdapterCall(provider, q, ctx)>>]
    ELSE
        [ret |-> Return(<<"Unknown provider: ", provider>>), calls |-> << >>]

query(provs, provider, q, ctx, o) ==
    IF ~InList(provider, get_available_providers(provs)) THEN
        [ret |-> Return(<<"Provider '", provider, "' is not available.">>),
         calls |-> << >>]
    ELSE IF provider = "deepseek" THEN
        [ret |-> _query_deepseek(q, ctx, o), calls |-> <<AdapterCall(provider, q, ctx)>>]
    ELSE IF provider = "openai" THEN
        [ret |-> _query_openai(q, ctx, o), calls |-> <<AdapterCall(provider, q, ctx)>>]
    ELSE IF provider = "anthropic" THEN
        [ret |-> _query_anthropic(q, ctx, o), calls |-> <<AdapterCall(provider, q, ctx)>>]
    ELSE IF provider = "gemini" THEN
        [ret |-> _query_gemini(q, ctx, o), calls |-> <<AdapterCall(provider, q, ctx)>>]
    ELSE IF provider = "huggingface" THEN
        [ret |-> _query_huggingface(q, ctx, o),
         calls |-> <<AdapterCall(provider, q, ctx)>>]
    ELSE
        [ret |-> Return(<<"Unknown provider: ", provider>>), calls |-> << >>]

\* ResearchAssistant._call_deepseek .. _call_anthropic
_call_deepseek(q, o) == ExceptToString(TransportCall(o), "DeepSeek")

_call_openai(q, o) == ExceptToString(TransportCall(o), "OpenAI")

_call_anthropic(q, o) == ExceptToString(TransportCall(o), "Anthropic")

\* ResearchAssistant(default_provider="deepseek") in main()
default_provider == "deepseek"

\* ResearchAssistant.research: the value returned and the adapters invoked.
research(avail, q, provider0, o) ==
    LET provider == IF provider0 = "" THEN default_provider ELSE provider0
    IN  IF ~InList(provider, avail) THEN
            [ret |-> Return(<<"Provider '", provider,
                              "' is not available. Available providers: ">>
                            \o Join([i \in 1..Len(avail) |-> <<avail[i]>>], <<", ">>)),
             calls |-> << >>]
        ELSE IF provider = "deepseek" THEN
            [ret |-> _call_deepseek(q, o), calls |-> <<AdapterCall(provider, q, << >>)>>]
        ELSE IF provider = "openai" THEN
            [ret |-> _call_openai(q, o), calls |-> <<AdapterCall(provider, q, << >>)>>]
        ELSE IF provider = "anthropic" THEN
            [ret |-> _call_anthropic(q, o), calls |-> <<AdapterCall(provider, q, << >>)>>]
        ELSE
            [ret |-> Return(<<"Unknown provider: ", provider>>), calls |-> << >>]

\* OpenAIProvider.generate / GeminiProvider.generate of the study assistant:
\* the SDK call and the extraction of the text, with no try around them.
generate(prompt, o) == TransportCall(o)

\* OpenAIProvider.__init__ / GeminiProvider.__init__ do not raise for lack of a
\* credential.
StudyProviderConstructs(e, pv) ==
    IF pv = "openai" THEN Truthy(e["OPENAI_API_KEY"])
    ELSE Truthy(e["GOOGLE_API_KEY"]) \/ Truthy(e["GOOGLE_APPLICATION_CREDENTIALS"])

\* chat() of the study assistant: the HTTP status answered.
chat(res) == IF res.raised THEN 500 ELSE 200

NoCall ==
    [fn |-> "none", provider |-> "", query |-> << >>, context |-> << >>,
     outcome |-> NoOutcome, calls |-> << >>, ret |-> Return(<< >>), status |-> 0]

\* lst[-n:] with Python's slice clamping; -0 is 0, so lst[-0:] is all of lst.
PySliceLastWrongEnd(lst, n) ==
    SubSeq(lst, 1, Min(n, Len(lst)))

PySliceLast(lst, n) ==
    LET start == IF -n < 0 THEN Max(Len(lst) - n, 0) ELSE Min(-n, Len(lst))
    IN  SubSeq(lst, start + 1, Len(lst))

\* f"Q: {q}\nA: {a}"
FormatExchangeSwapped(q, a) ==
    <<"Q: ">> \o a \o <<NL, "A: ">> \o q

FormatExchange(q, a) ==
    <<"Q: ">> \o q \o <<NL, "A: ">> \o a

\* MemoryManager.get_context: the returned string.
get_context_any_session(hist, maxh, s) ==
    LET keys == DOMAIN hist
        k    == IF s \in keys THEN s
                ELSE IF keys = {} THEN s ELSE CHOOSE x \in keys : TRUE
    IN  IF k \notin keys THEN << >>
        ELSE LET ctx == PySliceLast(hist[k], maxh)
             IN  Join([i \in 1..Len(ctx) |-> FormatExchange(ctx[i][1], ctx[i][2])],
                      <<NL>>)

get_context(hist, maxh, s) ==
    IF s \notin DOMAIN hist THEN << >>
    ELSE LET ctx == PySliceLast(hist[s], maxh)
         IN  Join([i \in 1..Len(ctx) |-> FormatExchange(ctx[i][1], ctx[i][2])],
                  <<NL>>)

\* MemoryManager.get_context: conversation_history after the call; the method
\* reads self.conversation_history and assigns nothing.
history_after_get_context_creates(hist, s) ==
    IF s \in DOMAIN hist THEN hist ELSE [x \in DOMAIN hist \cup {s} |->
                                            IF x = s THEN << >> ELSE hist[x]]

history_after_get_context(hist, s) == hist

\* The stored list of id s, << >> when s is not a key.
HistOf(hist, s) == IF s \in DOMAIN hist THEN hist[s] ELSE << >>

\* dict with key k set to v
DictSet(d, k, v) ==
    [x \in DOMAIN d \cup {k} |-> IF x = k THEN v ELSE d[x]]

\* dict with key k deleted
DictDel(d, k) ==
    [x \in DOMAIN d \ {k} |-> d[x]]

\* MemoryManager.add_exchange: conversation_history after the call.
add_exchange_no_trim(hist, maxh, s, q, r) ==
    LET h0 == IF s \notin DOMAIN hist THEN << >> ELSE hist[s]
    IN  DictSet(hist, s, Append(h0, <<q, r>>))

add_exchange_shared_list(hist, maxh, s, q, r) ==
    LET h0 == IF s \notin DOMAIN hist THEN << >> ELSE hist[s]
        h1 == Append(h0, <<q, r>>)
        h2 == IF Len(h1) > maxh THEN PySliceLast(h1, maxh) ELSE h1
    IN  [x \in DOMAIN hist \cup {s} |-> h2]

add_exchange(hist, maxh, s, q, r) ==
    LET h0 == IF s \notin DOMAIN hist THEN << >> ELSE hist[s]
        h1 == Append(h0, <<q, r>>)
        h2 == IF Len(h1) > maxh THEN PySliceLast(h1, maxh) ELSE h1
    IN  DictSet(hist, s, h2)

\* MemoryManager.clear_session: conversation_history after the call.
clear_session_keeps_key(hist, s) ==
    IF s \in DOMAIN hist THEN DictSet(hist, s, SubSeq(hist[s], 1, Len(hist[s]) - 1))
    ELSE hist

clear_session(hist, s) ==
    IF s \in DOMAIN hist THEN DictDel(hist, s) ELSE hist

\* --------------------------------------------------------- WebSearchClient

\* One item of a backend's response ("organic_results" / "items").
Item(t, sn) == [title |-> t, link |-> <<"http://">> \o t, snippet |-> sn]

\* The item lists a backend answers with.
BackendResponses ==
    {<< >>, <<Item(<<"A">>, <<"sa">>), Item(<<"B">>, <<"sb">>)>>}

\* What one backend call does: it raises, or it answers with a list of items.
BackendOutcomes ==
    {[raised |-> TRUE, items |-> << >>]}
        \cup {[raised |-> FALSE, items |-> x] : x \in BackendResponses}

\* The try block of a backend (web_search.py:47-65, 73-93): the call, and one
\* result per item of the response, all of them, tagged with the backend's name.
BackendCall(bo, src) ==
    IF bo.raised THEN Raise(<<"search error">>)
    ELSE Return([i \in 1..Len(bo.items) |->
                    [title |-> bo.items[i].title, link |-> bo.items[i].link,
                     snippet |-> bo.items[i].snippet, source |-> src]])

\* try: <body> except Exception as e: print(..); return []
ExceptToEmptyReraises(res) == res

ExceptToEmpty(res) == IF res.raised THEN Return(<< >>) ELSE res

\* WebSearchClient._search_serpapi
_search_serpapi(q, bo) == ExceptToEmpty(BackendCall(bo, "SerpAPI"))

\* WebSearchClient._search_google_pse
_search_google_pse(q, bo) == ExceptToEmpty(BackendCall(bo, "Google PSE"))

\* WebSearchClient.search: whether it raised, the list returned and the backends
\* called; so and po are what SerpAPI and Google PSE do if called.
search(serp, pse, q, engine, so, po) ==
    LET Out(res, called) ==
            [raised |-> res.raised,
             results |-> IF res.raised THEN << >> ELSE res.value,
             backends |-> called]
    IN  IF engine = "auto" THEN
            LET r1 == IF serp THEN _search_serpapi(q, so) ELSE Return(<< >>)
                c1 == IF serp THEN <<"serpapi">> ELSE << >>
            IN  IF r1.raised \/ r1.value # << >> THEN Out(r1, c1)
                ELSE LET r2 == IF pse THEN _search_google_pse(q, po) ELSE Return(<< >>)
                         c2 == IF pse THEN c1 \o <<"google_pse">> ELSE c1
                     IN  Out(r2, c2)
        ELSE IF engine = "serpapi" /\ serp THEN
            Out(_search_serpapi(q, so), <<"serpapi">>)
        ELSE IF engine = "google_pse" /\ pse THEN
            Out(_search_google_pse(q, po), <<"google_pse">>)
        ELSE Out(Return(<< >>), << >>)

\* WebSearchClient.is_available
is_available_both(serp, pse) == serp /\ pse

is_available(serp, pse) == serp \/ pse

\* WebSearchClient.__init__
WebSearchClientInit(e) ==
    /\ serpapi_enabled = Truthy(e["SERPAPI_API_KEY"])
    /\ google_pse_enabled = (Truthy(e["GOOGLE_PSE_ID"]) /\ Truthy(e["GOOGLE_API_KEY"]))

\* ------------------------------------------------------- research pipeline

\* The query with the search results folded in (app.py:50-51).
AugmentNoResults(q, results) == q

Augment(q, results) ==
    q \o <<NL, NL, "Here are some web search results for context:", NL>>
      \o Join([i \in 1..Len(results) |->
                  <<"Source: ">> \o results[i].title \o <<NL, "Content: ">>
                      \o results[i].snippet],
              <<NL>>)

\* The query after the search (app.py:47-51): augmented if search_results is
\* truthy, else as it was.
AugmentedQueryAlways(q, results) == Augment(q, results)

AugmentedQuery(q, results) ==
    IF results # << >> THEN Augment(q, results) ELSE q

\* not query.strip()
IsBlank(q) == \A i \in 1..Len(q) : q[i] \in {" ", NL}

\* response.strip()
RECURSIVE Strip(_)
Strip(str) ==
    IF str = << >> THEN str
    ELSE IF str[1] \in {" ", NL} THEN Strip(Tail(str))
    ELSE IF str[Len(str)] \in {" ", NL} THEN Strip(SubSeq(str, 1, Len(str) - 1))
    ELSE str

\* response.strip().replace('\n\n', '<br><br>').replace('\n', '<br>')
Beautify(str) ==
    LET t == Strip(str) IN [i \in 1..Len(t) |-> IF t[i] = NL THEN "<br>" ELSE t[i]]

NoSent == [provider |-> "", query |-> << >>, context |-> << >>]

NoRecorded == [session_id |-> "", query |-> << >>, response |-> << >>]

\* What a handler gives its caller: a text answer (delivered), or an error;
\* status is the HTTP status of the server's reply, 0 at the terminal.
NoResult ==
    [delivered |-> FALSE, response |-> << >>, search_results |-> << >>,
     error |-> << >>, status |-> 0]

\* No document is part of the invocation.
NoFile == [present |-> FALSE, path |-> << >>]

\* No invocation is in progress.
NoInvocation ==
    [handler |-> "none", pc |-> "idle", query |-> << >>, original |-> << >>,
     provider |-> "", web_search |-> FALSE, session_id |-> "", context |-> << >>,
     search_results |-> << >>, response |-> << >>, trace |-> << >>,
     sent |-> NoSent, recorded |-> NoRecorded, before |-> << >>,
     outcome |-> NoOutcome, result |-> NoResult,
     file |-> NoFile, text |-> << >>, history_before |-> << >>]

\* WebSearchClient.search has not been called.
NoSearchCall ==
    [engine |-> "", query |-> << >>, so |-> [raised |-> FALSE, items |-> << >>],
     po |-> [raised |-> FALSE, items |-> << >>], raised |-> FALSE, results |-> << >>,
     backends |-> << >>]

\* The threads of the server; each runs pipeline invocations on one session id.
Threads == {"t1", "t2"}

\* A thread between invocations, on session s, with its locals unset.
IdleThread(s) ==
    [sid |-> s, pc |-> "idle", round |-> 0, present |-> FALSE, ref |-> 0, n |-> 0,
     tmp |-> << >>, context |-> << >>]

\* No thread runs.
NoThreads ==
    /\ threads = [t \in Threads |-> IdleThread("")]
    /\ heap = << >>
    /\ refs = << >>
    /\ alone = [t \in Threads |-> << >>]
    /\ overlapped = FALSE

\* No host program runs: the components are used on their own.
NoHost ==
    /\ process = "none"
    /\ WebSearchClientInit(env)
    /\ current_provider = ""
    /\ use_web_search = FALSE
    /\ session_id = ""
    /\ inv = NoInvocation
    /\ started = 0
    /\ searchCall = NoSearchCall
    /\ NoThreads

\* max_history_per_session: int = 10
DefaultMaxHistory == 10

\* MemoryManager(max_history_per_session = n).
MemoryManagerInit(n) ==
    /\ conversation_history = << >>
    /\ max_history = n
    /\ last = [op |-> "init", sid |-> "", ret |-> << >>]
    /\ appended = [s \in SessionIds |-> << >>]
    /\ seen = {}

\* A MemoryManager on its own, built with any non-negative maximum; no provider
\* is configured and none is called.
Init ==
    /\ \E n \in 0..MaxN : MemoryManagerInit(n)
    /\ env = [k \in EnvKeys |-> None]
    /\ providers = _initialize_providers(env)
    /\ genai_configure_calls = GenaiConfigure(providers)
    /\ available_providers = _check_available_providers(env)
    /\ aiCall = NoCall
    /\ NoHost

RECURSIVE SumLen(_, _)
SumLen(f, S) ==
    IF S = {} THEN 0
    ELSE LET x == CHOOSE y \in S : TRUE IN Len(f[x]) + SumLen(f, S \ {x})

TotalAppended == SumLen(appended, SessionIds)

AddExchange(s, q, r) ==
    /\ TotalAppended < MaxAppended
    /\ conversation_history' = add_exchange(conversation_history, max_history, s, q, r)
    /\ last' = [op |-> "add_exchange", sid |-> s, ret |-> << >>]
    /\ appended' = [appended EXCEPT ![s] = Append(@, <<q, r>>)]
    /\ seen' = seen \cup {s}
    /\ UNCHANGED <<max_history, aiVars, hostVars, restVars>>

GetContext(s) ==
    /\ last' = [op |-> "get_context", sid |-> s,
                ret |-> get_context(conversation_history, max_history, s)]
    /\ conversation_history' = history_after_get_context(conversation_history, s)
    /\ UNCHANGED <<max_history, appended, seen, aiVars, hostVars, restVars>>

ClearSession(s) ==
    /\ conversation_history' = clear_session(conversation_history, s)
    /\ last' = [op |-> "clear_session", sid |-> s, ret |-> << >>]
    /\ appended' = [appended EXCEPT ![s] = << >>]
    /\ UNCHANGED <<max_history, seen, aiVars, hostVars, restVars>>

Next ==
    \/ \E s \in SessionIds, q \in Queries, r \in Responses : AddExchange(s, q, r)
    \/ \E s \in SessionIds : GetContext(s)
    \/ \E s \in SessionIds : ClearSession(s)

Spec == Init /\ [][Next]_vars

\* ------------------------------------------------------- provider dispatch

Contexts == {<< >>, <<"Q: ", "q1", NL, "A: ", "r1">>}

\* The environments of the provider dispatch: every provider key takes every
\* value; the search keys are not set.
AIEnvs ==
    {e \in [EnvKeys -> CredValues] :
        /\ e["SERPAPI_API_KEY"] = None
        /\ e["GOOGLE_PSE_ID"] = None
        /\ e["GOOGLE_API_KEY"] \in {None, "sk-live"}
        /\ e["GOOGLE_APPLICATION_CREDENTIALS"] \in {None, "sk-live"}}

\* The processes after start-up: AIClient(), ResearchAssistant(..) and the
\* study assistant's provider, each built from the environment.
InitAI ==
    /\ MemoryManagerInit(DefaultMaxHistory)
    /\ env \in AIEnvs
    /\ providers = _initialize_providers(env)
    /\ genai_configure_calls = GenaiConfigure(providers)
    /\ available_providers = _check_available_providers(env)
    /\ aiCall = NoCall
    /\ NoHost

\* The outcome recorded for a call: none when no adapter was invoked.
Seen(res, o) == IF res.calls = << >> THEN NoOutcome ELSE o

\* AIClient.query(provider, query, context)
AIQuery(p, q, ctx, o) ==
    /\ aiCall = NoCall
    /\ LET res == query(providers, p, q, ctx, o)
       IN  aiCall' = [fn |-> "AIClient.query", provider |-> p, query |-> q,
                      context |-> ctx, outcome |-> Seen(res, o), calls |-> res.calls,
                      ret |-> res.ret, status |-> 0]
    /\ UNCHANGED <<memVars, env, providers, available_providers, hostVars, restVars>>

\* ResearchAssistant.research(query, provider); the constructor raised when no
\* provider is available.
Research(p, q, o) ==
    /\ aiCall = NoCall
    /\ available_providers # << >>
    /\ LET res == research(available_providers, q, p, o)
       IN  aiCall' = [fn |-> "ResearchAssistant.research", provider |-> p,
                      query |-> q, context |-> << >>, outcome |-> Seen(res, o),
                      calls |-> res.calls, ret |-> res.ret, status |-> 0]
    /\ UNCHANGED <<memVars, env, providers, available_providers, hostVars, restVars>>

\* chat(req) of the study assistant with the provider AI_PROVIDER names.
StudyChat(pv, prompt, o) ==
    /\ aiCall = NoCall
    /\ StudyProviderConstructs(env, pv)
    /\ LET res == generate(prompt, o)
       IN  aiCall' = [fn |-> "generate", provider |-> pv, query |-> prompt,
                      context |-> << >>, outcome |-> o,
                      calls |-> <<AdapterCall(pv, prompt, << >>)>>,
                      ret |-> res, status |-> chat(res)]
    /\ UNCHANGED <<memVars, env, providers, available_providers, hostVars, restVars>>

\* The caller takes the returned value (or the exception); the client is ready
\* for the next call.  Calls are synchronous: one at a time.
AICallDone ==
    /\ aiCall # NoCall
    /\ aiCall' = NoCall
    /\ UNCHANGED <<memVars, env, providers, available_providers, hostVars, restVars>>

NextAI ==
    \/ AICallDone
    \/ \E p \in ProviderArgs, q \in Queries, ctx \in Contexts, o \in Outcomes :
           AIQuery(p, q, ctx, o)
    \/ \E p \in ProviderArgs \cup {""}, q \in Queries, o \in Outcomes :
           Research(p, q, o)
    \/ \E pv \in {"openai", "gemini"}, q \in Queries, o \in Outcomes :
           StudyChat(pv, q, o)

SpecAI == InitAI /\ [][NextAI]_vars

\* ------------------------------------------ hosts: app.py and app-terminal.py

\* Pipeline invocations explored per process.
MaxInvocations == 2

\* A request field that is not given.
Absent == "<absent>"

\* The query strings typed at the terminal; the second is blank.
HostQueries == {<<"q1">>, <<" ">>}

\* The query strings the server's requests carry.
RequestQueries == {<<"q1">>}

\* The 'provider' field of a request: not given, or an id.
RequestProviders == {Absent, "openai"}

\* The 'session_id' field of a request: an id, or not given.
RequestSessions == {"s1", Absent}

\* The environments of the hosts: three provider keys and the search keys are
\* set or not set.
HostEnvs ==
    {e \in [EnvKeys -> {None, "sk-live"}] :
        /\ e["ANTHROPIC_API_KEY"] = None
        /\ e["HUGGINGFACE_API_KEY"] = None
        /\ e["GOOGLE_APPLICATION_CREDENTIALS"] = None
        /\ e["GOOGLE_PSE_ID"] = e["GOOGLE_API_KEY"]}

\* app.py:21-25: the module-level components of the server.
AppInit ==
    /\ process = "app"
    /\ current_provider = ""
    /\ use_web_search = FALSE
    /\ session_id = ""

\* TerminalResearchAssistant.__init__(default_provider, use_web_search)
TerminalInit(dp, ws) ==
    LET available == get_available_providers(providers)
    IN  /\ process = IF available = << >> THEN "exited" ELSE "terminal"
        /\ current_provider = IF InList(dp, available) THEN dp
                              ELSE IF available # << >> THEN available[1]
                              ELSE ""
        /\ use_web_search = IF available = << >> THEN FALSE
                            ELSE (ws /\ is_available(serpapi_enabled, google_pse_enabled))
        /\ session_id \in (IF available = << >> THEN {""} ELSE SessionIds)

InitHost ==
    /\ MemoryManagerInit(DefaultMaxHistory)
    /\ env \in HostEnvs
    /\ providers = _initialize_providers(env)
    /\ genai_configure_calls = GenaiConfigure(providers)
    /\ available_providers = _check_available_providers(env)
    /\ aiCall = NoCall
    /\ WebSearchClientInit(env)
    /\ inv = NoInvocation
    /\ started = 0
    /\ searchCall = NoSearchCall
    /\ NoThreads
    /\ \/ AppInit
       \/ \E dp \in {"deepseek", "openai"}, ws \in BOOLEAN : TerminalInit(dp, ws)

\* The calls on the MemoryManager, as the hosts make them.
MemGetContext(s) ==
    /\ last' = [op |-> "get_context", sid |-> s,
                ret |-> get_context(conversation_history, max_history, s)]
    /\ conversation_history' = history_after_get_context(conversation_history, s)
    /\ UNCHANGED <<max_history, appended, seen>>

MemAddExchange(s, q, r) ==
    /\ conversation_history' = add_exchange(conversation_history, max_history, s, q, r)
    /\ last' = [op |-> "add_exchange", sid |-> s, ret |-> << >>]
    /\ appended' = [appended EXCEPT ![s] = Append(@, <<q, r>>)]
    /\ seen' = seen \cup {s}
    /\ UNCHANGED max_history

MemClearSession(s) ==
    /\ conversation_history' = clear_session(conversation_history, s)
    /\ last' = [op |-> "clear_session", sid |-> s, ret |-> << >>]
    /\ appended' = [appended EXCEPT ![s] = << >>]
    /\ UNCHANGED <<max_history, seen>>

hostConfig ==
    <<process, serpapi_enabled, google_pse_enabled, current_provider, use_web_search,
      session_id>>

\* The locals of a handler at its first pipeline statement.
Invocation(h, q, p, ws, sid) ==
    [NoInvocation EXCEPT !.handler = h, !.pc = "get_context", !.query = q,
                         !.original = q, !.provider = p, !.web_search = ws,
                         !.session_id = sid,
                         !.before = HistOf(conversation_history, sid)]

\* api_research / handle_research_request up to the first pipeline statement
\* (app.py:35-39, 117-122): the request's fields and their defaults.
RequestWithin(h, q, p, ws, sid, bound) ==
    /\ process = "app"
    /\ inv.pc \in {"idle", "done"}
    /\ started < bound
    /\ sid = Absent => DOMAIN conversation_history # SessionIds
    /\ LET available == get_available_providers(providers)
           prov == IF p # Absent THEN p
                   ELSE IF available # << >> THEN available[1] ELSE "deepseek"
           id   == IF sid # Absent THEN sid
                   ELSE CHOOSE x \in SessionIds : x \notin DOMAIN conversation_history
       IN  inv' = Invocation(h, q, prov, ws, id)
    /\ started' = started + 1
    /\ UNCHANGED <<memVars, aiVars, hostConfig, restVars>>

Request(h, q, p, ws, sid) == RequestWithin(h, q, p, ws, sid, MaxInvocations)

\* TerminalResearchAssistant.process_query up to the first pipeline statement
\* (app-terminal.py:88-89): a blank query returns at once.
ProcessQueryWithin(q, bound) ==
    /\ process = "terminal"
    /\ inv.pc \in {"idle", "done"}
    /\ started < bound
    /\ inv' = IF IsBlank(q)
              THEN [NoInvocation EXCEPT !.handler = "process_query", !.pc = "done",
                                        !.query = q, !.original = q]
              ELSE Invocation("process_query", q, current_provider, use_web_search,
                              session_id)
    /\ started' = started + 1
    /\ UNCHANGED <<memVars, aiVars, hostConfig, restVars>>

ProcessQuery(q) == ProcessQueryWithin(q, MaxInvocations)

\* context = memory_manager.get_context(session_id)
StepGetContext ==
    /\ inv.pc = "get_context"
    /\ MemGetContext(inv.session_id)
    /\ inv' = [inv EXCEPT !.pc = "search",
                          !.context = get_context(conversation_history, max_history,
                                                  inv.session_id),
                          !.trace = Append(@, "get_context")]
    /\ UNCHANGED <<aiVars, hostConfig, started, restVars>>

\* The condition under which the handler calls web_search.search
\* (app.py:46, 129; app-terminal.py:96).
SearchRequested ==
    IF inv.handler = "process_query" THEN inv.web_search
    ELSE inv.web_search /\ is_available(serpapi_enabled, google_pse_enabled)

\* search_results = web_search.search(query), and the augmentation of the query
StepSearch(so, po) ==
    /\ inv.pc = "search"
    /\ SearchRequested
    /\ LET res == search(serpapi_enabled, google_pse_enabled, inv.query, "auto", so, po)
       IN  inv' = [inv EXCEPT !.pc = IF res.raised THEN "raised" ELSE "query",
                              !.search_results = res.results,
                              !.query = AugmentedQuery(inv.query, res.results),
                              !.trace = Append(@, "search")]
    /\ UNCHANGED <<memVars, aiVars, hostConfig, started, restVars>>

\* The search is not requested (or, in app.py, not available).
StepNoSearch ==
    /\ inv.pc = "search"
    /\ ~SearchRequested
    /\ inv' = [inv EXCEPT !.pc = "query"]
    /\ UNCHANGED <<memVars, aiVars, hostConfig, started, restVars>>

\* response = ai_client.query(provider, query, context); an exception would
\* leave the handler.
StepQuery(o) ==
    /\ inv.pc = "query"
    /\ LET res == query(providers, inv.provider, inv.query, inv.context, o)
       IN  inv' = [inv EXCEPT !.pc = IF res.ret.raised THEN "raised" ELSE "add_exchange",
                              !.response = IF res.ret.raised THEN << >> ELSE res.ret.value,
                              !.sent = [provider |-> inv.provider, query |-> inv.query,
                                        context |-> inv.context],
                              !.outcome = Seen(res, o),
                              !.trace = Append(@, "query")]
    /\ UNCHANGED <<memVars, aiVars, hostConfig, started, restVars>>

\* The query string the handler passes to add_exchange (app.py:57, 140;
\* app-terminal.py:112).
RecordedQueryOriginal == inv.original

RecordedQuery == inv.query

\* memory_manager.add_exchange(session_id, query, response)
StepAddExchange ==
    /\ inv.pc = "add_exchange"
    /\ MemAddExchange(inv.session_id, RecordedQuery, inv.response)
    /\ inv' = [inv EXCEPT !.pc = "return",
                          !.recorded = [session_id |-> inv.session_id,
                                        query |-> RecordedQuery,
                                        response |-> inv.response],
                          !.trace = Append(@, "add_exchange")]
    /\ UNCHANGED <<aiVars, hostConfig, started, restVars>>

\* The handler's result: the JSON body, the research_complete event, or the
\* printed response.
StepReturn ==
    /\ inv.pc = "return"
    /\ inv' = [inv EXCEPT !.pc = "done",
                          !.result =
                              [NoResult EXCEPT
                                  !.delivered = TRUE,
                                  !.response = IF inv.handler = "handle_research_request"
                                               THEN Beautify(inv.response)
                                               ELSE inv.response,
                                  !.search_results = inv.search_results,
                                  !.status = IF inv.handler = "api_research"
                                             THEN 200 ELSE 0]]
    /\ UNCHANGED <<memVars, aiVars, hostConfig, started, restVars>>

\* The commands below are read by the next turn of the REPL loop, after the
\* previous handler has returned: its locals are gone.

\* current_provider after /provider <name> (app-terminal.py:203-207).
SwitchProviderUnchecked(cur, name, available) == name

SwitchProvider(cur, name, available) ==
    IF InList(name, available) THEN name ELSE cur

\* /provider <name> (app-terminal.py:199-207)
CmdProvider(name) ==
    /\ process = "terminal"
    /\ inv.pc \in {"idle", "done"}
    /\ current_provider' = SwitchProvider(current_provider, name,
                                          get_available_providers(providers))
    /\ inv' = NoInvocation
    /\ UNCHANGED <<memVars, aiVars, process, serpapi_enabled, google_pse_enabled,
                   use_web_search, session_id, started, restVars>>

\* /websearch [<arg>] (app-terminal.py:209-227); arg "" is no argument.
CmdWebsearch(arg) ==
    /\ process = "terminal"
    /\ inv.pc \in {"idle", "done"}
    /\ use_web_search' =
           IF arg = "" THEN ~use_web_search
           ELSE IF arg \in {"on", "yes", "true", "1"} THEN
               (IF is_available(serpapi_enabled, google_pse_enabled) THEN TRUE
                ELSE use_web_search)
           ELSE IF arg \in {"off", "no", "false", "0"} THEN FALSE
           ELSE use_web_search
    /\ inv' = NoInvocation
    /\ UNCHANGED <<memVars, aiVars, process, serpapi_enabled, google_pse_enabled,
                   current_provider, session_id, started, restVars>>

\* /clear, /reset (app-terminal.py:234-236)
CmdClear ==
    /\ process = "terminal"
    /\ inv.pc \in {"idle", "done"}
    /\ MemClearSession(session_id)
    /\ inv' = NoInvocation
    /\ UNCHANGED <<aiVars, hostConfig, started, restVars>>

PipelineStep ==
    \/ StepGetContext
    \/ \E so \in BackendOutcomes, po \in BackendOutcomes : StepSearch(so, po)
    \/ StepNoSearch
    \/ \E o \in Outcomes : StepQuery(o)
    \/ StepAddExchange
    \/ StepReturn

NextHost ==
    \/ \E h \in {"api_research", "handle_research_request"}, q \in RequestQueries,
          p \in RequestProviders, ws \in BOOLEAN, sid \in RequestSessions :
           Request(h, q, p, ws, sid)
    \/ \E q \in HostQueries : ProcessQuery(q)
    \/ PipelineStep
    \/ \E name \in {"deepseek", "openai", "llama"} : CmdProvider(name)
    \/ \E arg \in {"", "on", "off", "maybe"} : CmdWebsearch(arg)
    \/ CmdClear

SpecHost == InitHost /\ [][NextHost]_vars

\* ------------------------------------------ a long run of one session

\* The number of invocations of a long run: more than DefaultMaxHistory + 1, so
\* that the stored history is trimmed.
MaxSequential == 12

\* The query of the i-th invocation of the run; no two are equal.
QueryNo(i) == <<"q", ToString(i)>>

\* One provider key is set and no search key.
SeqEnv == [k \in EnvKeys |-> IF k = "DEEPSEEK_API_KEY" THEN "sk-live" ELSE None]

\* The provider answers, or its SDK raises.
SeqOutcomes == {o \in Outcomes : o.kind \in {"ok", "sdk_exception"}}

\* Either host, all its invocations on the session "s1".
InitSeq ==
    /\ InitHost
    /\ env = SeqEnv
    /\ ~use_web_search
    /\ session_id \in {"", "s1"}

NextSeq ==
    \/ RequestWithin("api_research", QueryNo(started + 1), Absent, FALSE, "s1",
                     MaxSequential)
    \/ ProcessQueryWithin(QueryNo(started + 1), MaxSequential)
    \/ StepGetContext
    \/ StepNoSearch
    \/ \E o \in SeqOutcomes : StepQuery(o)
    \/ StepAddExchange
    \/ StepReturn
    \/ CmdClear

SpecSeq == InitSeq /\ [][NextSeq]_vars

\* ------------------------------------------------------ document analysis

\* DocumentProcessor.supported_extensions
supported_extensions == << <<"txt">>, <<"pdf">>, <<"docx">> >>

\* str.lower() of one token of a file name.
Lower(tok) ==
    CASE tok = "TXT" -> "txt"
      [] tok = "PDF" -> "pdf"
      [] tok = "DOCX" -> "docx"
      [] OTHER -> tok

\* s.split(sep)[-1]: what follows the last sep, the whole of s if it has none.
LastSegment(str, sep) ==
    LET at == {i \in 1..Len(str) : str[i] = sep}
    IN  IF at = {} THEN str
        ELSE SubSeq(str, (CHOOSE i \in at : \A j \in at : j <= i) + 1, Len(str))

\* DocumentProcessor.get_extension: filename.split('.')[-1].lower()
get_extension(filename) ==
    LET seg == LastSegment(filename, ".") IN [i \in 1..Len(seg) |-> Lower(seg[i])]

\* DocumentProcessor.is_supported
is_supported_any(filename) == TRUE

is_supported(filename) == InList(get_extension(filename), supported_extensions)

\* os.path.basename
Basename(path) == LastSegment(path, "/")

\* A document text of n blocks; one token of a text stands for BlockChars
\* characters.
BlockChars == 1000

Blocks(n) == [i \in 1..n |-> ToString(i)]

\* text[:4000]
SliceChars == 4000

PySliceFirstWhole(str, n) == str

PySliceFirst(str, n) == SubSeq(str, 1, Min(n, Len(str)))

\* What reading the document does: it yields the text, or it raises.
ExtractOutcomes ==
    {Return(Blocks(n)) : n \in {2, 5}} \cup {Raise(<<"boom">>)}

\* DocumentProcessor.extract_text for a supported extension: the text, or on an
\* exception the string "Error extracting text: <detail>".
extract_text(eo) ==
    IF eo.raised THEN <<"Error extracting text: ">> \o eo.value ELSE eo.value

\* document_query (app.py:93-102, app-terminal.py:138-147); indent is the
\* indentation of the literal's lines in the source.
DocumentQuery(text, q, indent) ==
    <<NL, indent,
      "Analyze the following document content and answer the user's query.", NL,
      indent, NL, indent, "DOCUMENT CONTENT:", NL, indent>>
      \o PySliceFirst(text, SliceChars \div BlockChars)
      \o <<"  # Limit to first 4000 characters", NL, indent, NL,
           indent, "USER QUERY: ">> \o q
      \o <<NL, indent, NL, indent,
           "Please provide a comprehensive analysis based on the document content.",
           NL, indent>>

\* The query side of the exchange a document analysis records.
DocLabel(h, q, path) ==
    IF h = "analyze_document"
    THEN <<"Document analysis query: ">> \o q \o <<" for file: ">> \o Basename(path)
    ELSE <<"Document analysis query: ">> \o q

\* The names of the uploaded files.
DocNames ==
    {<<"report", ".", "pdf">>, <<"notes", ".", "TXT">>, <<"data", ".", "csv">>,
     <<"README">>}

\* The paths given to /upload.
DocPaths ==
    {<<"report", ".", "pdf">>, <<"docs", "/", "a", ".", "docx">>,
     <<"v1", ".", "2", "/", "data">>}

\* What the provider's transport does during a document analysis.
DocOutcomes == {o \in Outcomes : o.kind \in {"ok", "sdk_exception"}}

\* The query of a document analysis when none is given.
DefaultDocQuery == <<"Analyze this document">>

DocInvocation(h, present, path, q, p, sid) ==
    [NoInvocation EXCEPT !.handler = h, !.pc = "doc_check", !.query = q,
                         !.original = q, !.provider = p, !.session_id = sid,
                         !.before = HistOf(conversation_history, sid),
                         !.file = [present |-> present, path |-> path],
                         !.history_before = conversation_history]

\* POST /api/analyze_document: the request; uploaded says whether request.files
\* has 'file'.  The form fields are read after the check of the upload.
DocRequest(uploaded, name, given, p, sid) ==
    /\ process = "app"
    /\ inv.pc \in {"idle", "done"}
    /\ started < MaxInvocations
    /\ sid = Absent => DOMAIN conversation_history # SessionIds
    /\ LET available == get_available_providers(providers)
           prov == IF p # Absent THEN p
                   ELSE IF available # << >> THEN available[1] ELSE "deepseek"
           id   == IF sid # Absent THEN sid
                   ELSE CHOOSE x \in SessionIds : x \notin DOMAIN conversation_history
           q    == IF given THEN <<"q1">> ELSE DefaultDocQuery
       IN  inv' = DocInvocation("api_analyze_document", uploaded, name, q, prov, id)
    /\ started' = started + 1
    /\ UNCHANGED <<memVars, aiVars, hostConfig, restVars>>

\* /upload <file> [query], or --file: analyze_document(file_path, query); exists
\* is os.path.exists(file_path).
AnalyzeDocument(exists, path, given) ==
    /\ process = "terminal"
    /\ inv.pc \in {"idle", "done"}
    /\ started < MaxInvocations
    /\ inv' = DocInvocation("analyze_document", exists, path,
                            IF given THEN <<"q1">> ELSE DefaultDocQuery,
                            current_provider, session_id)
    /\ started' = started + 1
    /\ UNCHANGED <<memVars, aiVars, hostConfig, restVars>>

\* The error the handler answers with for a document it does not take.
DocError(h, kind, path) ==
    IF h = "api_analyze_document"
    THEN [NoResult EXCEPT !.status = 400,
                          !.error = IF kind = "missing" THEN <<"No file uploaded">>
                                    ELSE <<"Unsupported file type">>]
    ELSE [NoResult EXCEPT
             !.error = IF kind = "missing"
                       THEN <<"Error: File '">> \o path \o <<"' not found.">>
                       ELSE <<"Error: Unsupported file type. Supported types: .txt, .pdf, .docx">>]

\* The checks before anything is read (app.py:67-77, app-terminal.py:119-126).
DocCheck ==
    /\ inv.pc = "doc_check"
    /\ inv' =
           IF ~inv.file.present
           THEN [inv EXCEPT !.pc = "done",
                            !.result = DocError(inv.handler, "missing", inv.file.path)]
           ELSE IF ~is_supported(inv.file.path)
           THEN [inv EXCEPT !.pc = "done",
                            !.trace = Append(@, "is_supported"),
                            !.result = DocError(inv.handler, "unsupported",
                                                inv.file.path)]
           ELSE [inv EXCEPT !.pc = "doc_extract", !.trace = Append(@, "is_supported")]
    /\ UNCHANGED <<memVars, aiVars, hostConfig, started, restVars>>

\* text = document_processor.extract_text(path, file_extension)
DocExtract(eo) ==
    /\ inv.pc = "doc_extract"
    /\ inv' = [inv EXCEPT !.pc = "doc_context", !.text = extract_text(eo),
                          !.trace = Append(@, "extract_text")]
    /\ UNCHANGED <<memVars, aiVars, hostConfig, started, restVars>>

\* context = memory_manager.get_context(session_id)
DocGetContext ==
    /\ inv.pc = "doc_context"
    /\ MemGetContext(inv.session_id)
    /\ inv' = [inv EXCEPT !.pc = "doc_query",
                          !.context = get_context(conversation_history, max_history,
                                                  inv.session_id),
                          !.trace = Append(@, "get_context")]
    /\ UNCHANGED <<aiVars, hostConfig, started, restVars>>

\* response = ai_client.query(provider, document_query, context)
DocQuery(o) ==
    /\ inv.pc = "doc_query"
    /\ LET prompt == DocumentQuery(inv.text, inv.original,
                                   IF inv.handler = "analyze_document"
                                   THEN "        " ELSE "    ")
           res == query(providers, inv.provider, prompt, inv.context, o)
       IN  inv' = [inv EXCEPT !.pc = IF res.ret.raised THEN "raised" ELSE "doc_add",
                              !.query = prompt,
                              !.response = IF res.ret.raised THEN << >> ELSE res.ret.value,
                              !.sent = [provider |-> inv.provider, query |-> prompt,
                                        context |-> inv.context],
                              !.outcome = Seen(res, o),
                              !.trace = Append(@, "query")]
    /\ UNCHANGED <<memVars, aiVars, hostConfig, started, restVars>>

\* memory_manager.add_exchange(session_id, f"Document analysis query: ..", response)
DocAddExchange ==
    /\ inv.pc = "doc_add"
    /\ LET label == DocLabel(inv.handler, inv.original, inv.file.path)
       IN  /\ MemAddExchange(inv.session_id, label, inv.response)
           /\ inv' = [inv EXCEPT !.pc = "doc_return",
                                 !.recorded = [session_id |-> inv.session_id,
                                               query |-> label,
                                               response |-> inv.response],
                                 !.trace = Append(@, "add_exchange")]
    /\ UNCHANGED <<aiVars, hostConfig, started, restVars>>

\* return jsonify({'response': response, 'session_id': session_id}) /
\* self._print_response(response)
DocReturn ==
    /\ inv.pc = "doc_return"
    /\ inv' = [inv EXCEPT !.pc = "done",
                          !.result = [NoResult EXCEPT
                                         !.delivered = TRUE,
                                         !.response = inv.response,
                                         !.status = IF inv.handler = "api_analyze_document"
                                                    THEN 200 ELSE 0]]
    /\ UNCHANGED <<memVars, aiVars, hostConfig, started, restVars>>

NextDoc ==
    \/ \E uploaded \in BOOLEAN, name \in DocNames, given \in BOOLEAN,
          sid \in RequestSessions :
           DocRequest(uploaded, name, given, Absent, sid)
    \/ \E exists \in BOOLEAN, path \in DocPaths, given \in BOOLEAN :
           AnalyzeDocument(exists, path, given)
    \/ DocCheck
    \/ \E eo \in ExtractOutcomes : DocExtract(eo)
    \/ DocGetContext
    \/ \E o \in DocOutcomes : DocQuery(o)
    \/ DocAddExchange
    \/ DocReturn

\* Either host at start-up; no search key is set, a document analysis never
\* searches.
InitDoc ==
    /\ InitHost
    /\ env["SERPAPI_API_KEY"] = None
    /\ env["GOOGLE_API_KEY"] = None

SpecDoc == InitDoc /\ [][NextDoc]_vars

\* ------------------------------------------------ WebSearchClient on its own

\* The longest item list a backend answers with.
MaxItems == 6

\* "num": 5 -- the number of results the request asks the backend for.
RequestedNum == 5

\* A response of n items.
ItemsOf(n) == [i \in 1..n |-> Item(<<"T", ToString(i)>>, <<"s", ToString(i)>>)]

\* What a backend does when search calls it: it raises, or it answers with no
\* item, one item, or MaxItems items (the response is the backend's to choose).
SearchOutcomes ==
    {[raised |-> TRUE, items |-> << >>]}
        \cup {[raised |-> FALSE, items |-> ItemsOf(n)] : n \in {0, 1, MaxItems}}

\* The engine argument of search; the last is none of the documented modes.
Engines == {"auto", "serpapi", "google_pse", "bing"}

\* The environments of the search client: each search key is not set, empty, or
\* set.
SearchEnvs ==
    {e \in [EnvKeys -> {None, "", "sk-live"}] :
        \A k \in EnvKeys \ {"SERPAPI_API_KEY", "GOOGLE_PSE_ID", "GOOGLE_API_KEY"} :
            e[k] = None}

\* WebSearchClient() built from the environment.
InitSearch ==
    /\ MemoryManagerInit(DefaultMaxHistory)
    /\ env \in SearchEnvs
    /\ providers = _initialize_providers(env)
    /\ genai_configure_calls = GenaiConfigure(providers)
    /\ available_providers = _check_available_providers(env)
    /\ aiCall = NoCall
    /\ NoHost

\* results = web_search.search(q, engine)
Search(q, engine, so, po) ==
    /\ LET res == search(serpapi_enabled, google_pse_enabled, q, engine, so, po)
       IN  searchCall' = [engine |-> engine, query |-> q, so |-> so, po |-> po,
                          raised |-> res.raised, results |-> res.results,
                          backends |-> res.backends]
    /\ UNCHANGED <<memVars, aiVars, hostVars, concVars, genai_configure_calls>>

NextSearch ==
    \E q \in Queries, engine \in Engines, so \in SearchOutcomes, po \in SearchOutcomes :
        Search(q, engine, so, po)

SpecSearch == InitSearch /\ [][NextSearch]_vars

\* ------------------------- threads on the shared MemoryManager (app.py:24)

\* Invocations started, over all threads.
MaxRounds == 3

\* The exchange of thread t's k-th invocation: its query and the response.
Exchange(t, k) == << <<"q", t, ToString(k)>>, <<"r", t, ToString(k)>> >>

\* The reference of a newly created list object.
FreshRefReused(h) == 1

FreshRef(h) == Len(h) + 1

\* conversation_history as a dict of lists: each id's list object's content.
View(h, rf) == [s \in DOMAIN rf |-> h[rf[s]]]

\* "\n".join([f"Q: {q}\nA: {a}" for q, a in context_exchanges])
ContextString(exs) ==
    Join([i \in 1..Len(exs) |-> FormatExchange(exs[i][1], exs[i][2])], <<NL>>)

\* One MemoryManager shared by the threads, each thread on a session id of its own
\* choice (the same or different ones).
InitConc ==
    /\ \E n \in 0..MaxN : MemoryManagerInit(n)
    /\ env = [k \in EnvKeys |-> None]
    /\ providers = _initialize_providers(env)
    /\ genai_configure_calls = GenaiConfigure(providers)
    /\ available_providers = _check_available_providers(env)
    /\ aiCall = NoCall
    /\ process = "none"
    /\ WebSearchClientInit(env)
    /\ current_provider = ""
    /\ use_web_search = FALSE
    /\ session_id = ""
    /\ inv = NoInvocation
    /\ started = 0
    /\ searchCall = NoSearchCall
    /\ threads \in [Threads -> {IdleThread(s) : s \in SessionIds}]
    /\ heap = << >>
    /\ refs = << >>
    /\ alone = [t \in Threads |-> << >>]
    /\ overlapped = FALSE

\* What every step of thread t leaves alone or derives.
ThreadStep(t) ==
    /\ conversation_history' = View(heap', refs')
    /\ overlapped' = (overlapped \/ \E u \in Threads \ {t} : threads[u].pc # "idle")
    /\ UNCHANGED <<max_history, last, appended, seen, aiVars, hostVars, searchCall,
                   genai_configure_calls>>

\* Thread t sets its locals and moves to pc.
Goto(t, pc, f) == threads' = [threads EXCEPT ![t] = [f EXCEPT !.pc = pc]]

\* add_exchange has returned: the invocation is over.
Finished(t) ==
    alone' = [alone EXCEPT ![t] =
                 add_exchange(@, max_history, threads[t].sid,
                              Exchange(t, threads[t].round)[1],
                              Exchange(t, threads[t].round)[2])]

\* A request arrives: the handler starts on thread t.
Start(t) ==
    /\ threads[t].pc = "idle"
    /\ threads["t1"].round + threads["t2"].round < MaxRounds
    /\ Goto(t, "gc_check", [threads[t] EXCEPT !.round = @ + 1, !.context = << >>])
    /\ UNCHANGED <<heap, refs, alone>>
    /\ ThreadStep(t)

\* get_context, line 24-25: if session_id not in self.conversation_history
GcCheck(t) ==
    /\ threads[t].pc = "gc_check"
    /\ LET p == threads[t].sid \in DOMAIN refs
       IN  Goto(t, IF p THEN "gc_load" ELSE "ae_check",
                [threads[t] EXCEPT !.present = p, !.context = << >>])
    /\ UNCHANGED <<heap, refs, alone>>
    /\ ThreadStep(t)

\* get_context, line 28: self.conversation_history[session_id]
GcLoad(t) ==
    /\ threads[t].pc = "gc_load"
    /\ Goto(t, "gc_slice", [threads[t] EXCEPT !.ref = refs[threads[t].sid]])
    /\ UNCHANGED <<heap, refs, alone>>
    /\ ThreadStep(t)

\* get_context, lines 28-29: the slice [-self.max_history:] and the join
GcSlice(t) ==
    /\ threads[t].pc = "gc_slice"
    /\ Goto(t, "ae_check",
            [threads[t] EXCEPT !.ref = 0, !.context =
                ContextString(PySliceLast(heap[threads[t].ref], max_history))])
    /\ UNCHANGED <<heap, refs, alone>>
    /\ ThreadStep(t)

\* add_exchange, line 40: if session_id not in self.conversation_history
AeCheck(t) ==
    /\ threads[t].pc = "ae_check"
    /\ LET p == threads[t].sid \in DOMAIN refs
       IN  Goto(t, IF p THEN "ae_load" ELSE "ae_create",
                [threads[t] EXCEPT !.present = p])
    /\ UNCHANGED <<heap, refs, alone>>
    /\ ThreadStep(t)

\* add_exchange, line 41: self.conversation_history[session_id] = []
AeCreate(t) ==
    /\ threads[t].pc = "ae_create"
    /\ heap' = Append(heap, << >>)
    /\ refs' = DictSet(refs, threads[t].sid, FreshRef(heap))
    /\ Goto(t, "ae_load", threads[t])
    /\ UNCHANGED alone
    /\ ThreadStep(t)

\* add_exchange, line 43: self.conversation_history[session_id]
AeLoad(t) ==
    /\ threads[t].pc = "ae_load"
    /\ Goto(t, "ae_append", [threads[t] EXCEPT !.ref = refs[threads[t].sid]])
    /\ UNCHANGED <<heap, refs, alone>>
    /\ ThreadStep(t)

\* add_exchange, line 43: .append((query, response))
AeAppend(t) ==
    /\ threads[t].pc = "ae_append"
    /\ heap' = [heap EXCEPT ![threads[t].ref] = Append(@, Exchange(t, threads[t].round))]
    /\ Goto(t, "ae_len_load", [threads[t] EXCEPT !.ref = 0])
    /\ UNCHANGED <<refs, alone>>
    /\ ThreadStep(t)

\* add_exchange, line 46: self.conversation_history[session_id]
AeLenLoad(t) ==
    /\ threads[t].pc = "ae_len_load"
    /\ Goto(t, "ae_len", [threads[t] EXCEPT !.ref = refs[threads[t].sid]])
    /\ UNCHANGED <<heap, refs, alone>>
    /\ ThreadStep(t)

\* add_exchange, line 46: if len(..) > self.max_history
AeLen(t) ==
    /\ threads[t].pc = "ae_len"
    /\ LET n == Len(heap[threads[t].ref])
       IN  /\ Goto(t, IF n > max_history THEN "ae_trim_load" ELSE "idle",
                   [threads[t] EXCEPT !.n = n, !.ref = 0])
           /\ IF n > max_history THEN UNCHANGED alone ELSE Finished(t)
    /\ UNCHANGED <<heap, refs>>
    /\ ThreadStep(t)

\* add_exchange, line 47, right-hand side: self.conversation_history[session_id]
AeTrimLoad(t) ==
    /\ threads[t].pc = "ae_trim_load"
    /\ Goto(t, "ae_trim_slice", [threads[t] EXCEPT !.ref = refs[threads[t].sid]])
    /\ UNCHANGED <<heap, refs, alone>>
    /\ ThreadStep(t)

\* add_exchange, line 47, right-hand side: [-self.max_history:], a new list
AeTrimSlice(t) ==
    /\ threads[t].pc = "ae_trim_slice"
    /\ Goto(t, "ae_trim_store",
            [threads[t] EXCEPT !.ref = 0,
                               !.tmp = PySliceLast(heap[threads[t].ref], max_history)])
    /\ UNCHANGED <<heap, refs, alone>>
    /\ ThreadStep(t)

\* add_exchange, line 47: self.conversation_history[session_id] = <the new list>
AeTrimStore(t) ==
    /\ threads[t].pc = "ae_trim_store"
    /\ heap' = Append(heap, threads[t].tmp)
    /\ refs' = DictSet(refs, threads[t].sid, FreshRef(heap))
    /\ Goto(t, "idle", [threads[t] EXCEPT !.tmp = << >>])
    /\ Finished(t)
    /\ ThreadStep(t)

NextConc ==
    \E t \in Threads :
        \/ Start(t)
        \/ GcCheck(t)
        \/ GcLoad(t)
        \/ GcSlice(t)
        \/ AeCheck(t)
        \/ AeCreate(t)
        \/ AeLoad(t)
        \/ AeAppend(t)
        \/ AeLenLoad(t)
        \/ AeLen(t)
        \/ AeTrimLoad(t)
        \/ AeTrimSlice(t)
        \/ AeTrimStore(t)

SpecConc == InitConc /\ [][NextConc]_vars

\* ------------------------------------------------- claims on MemoryManager

\* The last n elements of seq (all of it when it is shorter).
LastN(seq, n) == SubSeq(seq, Max(Len(seq) - n, 0) + 1, Len(seq))

\* The rendering of a list of exchanges: "Q: q\nA: a" entries, newline-joined.
Render(exs) ==
    Join([i \in 1..Len(exs) |-> <<"Q: ">> \o exs[i][1] \o <<NL, "A: ">> \o exs[i][2]],
         <<NL>>)

\* ctx is the entry e alone, or ends with a newline followed by e.
FinalEntryIs(ctx, e) == ctx = e \/ EndsWith(ctx, <<NL>> \o e)

Suffixes(seq) == {SubSeq(seq, i, Len(seq)) : i \in 1..(Len(seq) + 1)}

\* C1: after any sequence of add_exchange, get_context and clear_session calls
\* on a MemoryManager built with any non-negative maximum N, every session's
\* stored history holds at most N exchanges.
C1_HistoryBounded ==
    \A s \in DOMAIN conversation_history :
        Len(conversation_history[s]) <= max_history

\* C2: after N+k add_exchange calls (k > 0) to a session with no clear in
\* between, get_context renders exactly the last N appended exchanges, oldest
\* first, and none of the first k.
C2_LastNRendered ==
    \A s \in SessionIds :
        Len(appended[s]) > max_history =>
            get_context(conversation_history, max_history, s)
                = Render(LastN(appended[s], max_history))

\* C3: right after add_exchange(s, q, r), for s seen before or not and any
\* prior history, get_context(s) is a string whose final entry is "Q: q\nA: r".
C3_RoundTrip ==
    last.op = "add_exchange" =>
        LET ex == appended[last.sid][Len(appended[last.sid])]
        IN  FinalEntryIs(get_context(conversation_history, max_history, last.sid),
                         <<"Q: ">> \o ex[1] \o <<NL, "A: ">> \o ex[2])

\* C3 witness: an add_exchange has just returned on a session that already
\* held max_history >= 1 exchanges, so the call trimmed the list.
C3_Witness ==
    /\ last.op = "add_exchange"
    /\ max_history >= 1
    /\ Len(appended[last.sid]) > max_history

\* C4: get_context(s) is the empty string for every id s never passed to
\* add_exchange, whatever was done on other ids.
C4_UnseenEmpty ==
    /\ \A s \in SessionIds \ seen :
           get_context(conversation_history, max_history, s) = << >>
    /\ (last.op = "get_context" /\ last.sid \notin seen) => last.ret = << >>

\* C4 witness: get_context has just returned for a never-added id while another
\* id holds exchanges.
C4_Witness ==
    /\ last.op = "get_context"
    /\ last.sid \notin seen
    /\ \E t \in DOMAIN conversation_history : Len(conversation_history[t]) > 0

\* C5: clear_session(s) removes the whole history of s: get_context(s) is empty
\* until the next add_exchange(s, ..), the first add_exchange after it leaves a
\* history holding only that exchange, and clear_session on an id with no
\* history changes nothing.
C5_ClearSession ==
    /\ [](\A s \in SessionIds :
            /\ appended[s] = << >> =>
                   /\ s \notin DOMAIN conversation_history
                   /\ get_context(conversation_history, max_history, s) = << >>
            /\ Len(appended[s]) = 1 =>
                   /\ s \in DOMAIN conversation_history
                   /\ conversation_history[s] = appended[s])
    /\ [][\A s \in SessionIds :
            (ClearSession(s) /\ s \notin DOMAIN conversation_history) =>
                UNCHANGED <<conversation_history, max_history>>]_vars

\* C5 witness: clear_session has just returned on an id that had exchanges,
\* and the id is no longer a key.
C5_Witness ==
    /\ last.op = "clear_session"
    /\ last.sid \in seen
    /\ last.sid \notin DOMAIN conversation_history
    /\ conversation_history # << >>

\* C6: get_context(A) renders only exchanges appended with id A, and an
\* operation on an id B leaves the stored history of every other id unchanged.
C6_NoLeak ==
    /\ [](\A a \in SessionIds :
            /\ HistOf(conversation_history, a) \in Suffixes(appended[a])
            /\ get_context(conversation_history, max_history, a)
                   \in {Render(x) : x \in Suffixes(appended[a])})
    /\ [][\A b \in SessionIds :
            ((\E q \in Queries, r \in Responses : AddExchange(b, q, r))
                 \/ GetContext(b) \/ ClearSession(b)) =>
                \A a \in SessionIds \ {b} :
                    /\ (a \in DOMAIN conversation_history')
                           <=> (a \in DOMAIN conversation_history)
                    /\ HistOf(conversation_history', a)
                           = HistOf(conversation_history, a)]_vars

\* C6 witness: two ids hold different non-empty histories and an add_exchange
\* on one of them has just returned.
C6_Witness ==
    /\ last.op = "add_exchange"
    /\ \A a \in SessionIds : Len(HistOf(conversation_history, a)) > 0
    /\ \E a, b \in SessionIds :
           HistOf(conversation_history, a) # HistOf(conversation_history, b)

\* --------------------------------------------- claims on provider dispatch

\* The provider id has a credential in the environment.
HasCredential(p) ==
    /\ InList(p, ProviderIds)
    /\ env[ProviderEnvKey(p)] \notin {None, ""}

\* The name an adapter's error string carries.
ErrorName(p) ==
    CASE p = "deepseek" -> "DeepSeek"
      [] p = "openai" -> "OpenAI"
      [] p = "anthropic" -> "Anthropic"
      [] p = "gemini" -> "Gemini"
      [] p = "huggingface" -> "Hugging Face"

ErrorString(name, detail) == <<"Error calling ", name, " API: ">> \o detail

\* C7: AIClient.query with a provider id that is not enabled (no credential,
\* or not a known id) returns exactly "Provider '<id>' is not available." and
\* invokes no adapter.
C7_UnavailableProvider ==
    (aiCall.fn = "AIClient.query" /\ ~HasCredential(aiCall.provider)) =>
        /\ aiCall.ret = Return(<<"Provider '", aiCall.provider, "' is not available.">>)
        /\ aiCall.calls = << >>

\* C7 witness: query("openai", ..) has returned in a process where OPENAI_API_KEY
\* is not set and another provider is enabled.
C7_Witness ==
    /\ aiCall.fn = "AIClient.query"
    /\ aiCall.provider = "openai"
    /\ env["OPENAI_API_KEY"] = None
    /\ env["DEEPSEEK_API_KEY"] = "sk-live"

RECURSIVE Count(_, _)
Count(tr, x) ==
    IF tr = << >> THEN 0
    ELSE (IF tr[1] = x THEN 1 ELSE 0) + Count(Tail(tr), x)

\* The invocation in progress is one the pipeline runs for: every server
\* request, and process_query with a non-blank query.
RunsPipeline == inv.handler # "none" /\ ~IsBlank(inv.original)

\* C9: every research pipeline invocation reaches its success terminal state
\* whatever the provider and the search backends do: no step raises, a next
\* step is always possible until the handler returns, a provider failure or an
\* unavailable provider is delivered as a normal response carrying the error
\* text, and exactly one exchange (query, response) is appended to the
\* session's history.
C9_PipelineSucceeds ==
    /\ inv.pc # "raised"
    /\ inv.pc \notin {"idle", "done"} => ENABLED PipelineStep
    /\ (inv.pc = "done" /\ RunsPipeline) =>
           /\ inv.result.delivered
           /\ inv.result.response \in {inv.response, Beautify(inv.response)}
           /\ ~HasCredential(inv.provider) =>
                  inv.response = <<"Provider '", inv.provider, "' is not available.">>
           /\ inv.outcome.kind \notin {"ok", "none"} =>
                  inv.response = ErrorString(ErrorName(inv.provider), inv.outcome.text)
           /\ inv.outcome.kind = "ok" => inv.response = inv.outcome.text
           /\ Count(inv.trace, "add_exchange") = 1
           /\ Len(inv.before) < max_history =>
                  HistOf(conversation_history, inv.session_id)
                      = Append(inv.before, <<inv.sent.query, inv.response>>)

\* C9 witness: a handler has returned for a session that already held an
\* exchange, after the provider call failed.
C9_Witness ==
    /\ inv.pc = "done"
    /\ RunsPipeline
    /\ inv.outcome.kind = "transport_failure"
    /\ inv.before # << >>
    /\ inv.result.delivered

\* C10: in every research pipeline invocation the query recorded by
\* add_exchange is the query string passed to AIClient.query (the augmented
\* string when the search results were non-empty, the original otherwise) and
\* the recorded response is the string AIClient.query returned.
C10_RecordedIsSent ==
    Count(inv.trace, "add_exchange") > 0 =>
        /\ inv.recorded.query = inv.sent.query
        /\ inv.recorded.response = inv.response
        /\ inv.recorded.session_id = inv.session_id
        /\ inv.search_results = << >> => inv.sent.query = inv.original
        /\ inv.search_results # << >> =>
               /\ inv.sent.query = Augment(inv.original, inv.search_results)
               /\ inv.sent.query # inv.original

\* C10 witness: add_exchange has been called in an invocation whose search
\* returned results, so the recorded query is not the original one.
C10_Witness ==
    /\ inv.pc = "done"
    /\ inv.search_results # << >>
    /\ inv.recorded.query # inv.original
    /\ inv.recorded.query = inv.sent.query

\* ------------------------------------------------- claims on the augmentation

\* "Source: <title>\nContent: <snippet>" of one result.
SourceEntry(r) == <<"Source: ">> \o r.title \o <<NL, "Content: ">> \o r.snippet

\* The entries of r1..rk in order, a single newline between two entries and
\* nothing after the last.
RECURSIVE SourcesText(_)
SourcesText(rs) ==
    IF Len(rs) = 1 THEN SourceEntry(rs[1])
    ELSE SourceEntry(rs[1]) \o <<NL>> \o SourcesText(Tail(rs))

\* C11: when the search returned a non-empty sequence r1..rk, the query passed
\* to the provider is the original query, then "\n\nHere are some web search
\* results for context:\n", then the entries "Source: <title_i>\nContent:
\* <snippet_i>" in result order joined by single newlines, and nothing more; for
\* the results titled A, B with snippets sa, sb it ends with the scenario's text.
C11_AugmentedQueryText ==
    (Count(inv.trace, "query") > 0 /\ inv.search_results # << >>) =>
        /\ inv.sent.query =
               inv.original
                 \o <<NL, NL, "Here are some web search results for context:", NL>>
                 \o SourcesText(inv.search_results)
        /\ inv.sent.query[Len(inv.sent.query)]
               = inv.search_results[Len(inv.search_results)].snippet[1]
        /\ (/\ Len(inv.search_results) = 2
            /\ inv.search_results[1].title = <<"A">>
            /\ inv.search_results[1].snippet = <<"sa">>
            /\ inv.search_results[2].title = <<"B">>
            /\ inv.search_results[2].snippet = <<"sb">>) =>
               EndsWith(inv.sent.query,
                        <<"Here are some web search results for context:", NL,
                          "Source: ", "A", NL, "Content: ", "sa", NL,
                          "Source: ", "B", NL, "Content: ", "sb">>)

\* The provider was called with a query augmented by two results.
C11_Witness ==
    /\ inv.pc = "done"
    /\ Len(inv.search_results) = 2
    /\ inv.sent.query # inv.original
    /\ EndsWith(inv.sent.query, <<"Source: ", "B", NL, "Content: ", "sb">>)

\* C12: in an invocation where the search is not requested, is not available or
\* returned an empty sequence, the query passed to the provider, and the query
\* recorded in memory, is the caller's original query exactly.
C12_NoAugmentation ==
    (\/ ~inv.web_search
     \/ ~is_available(serpapi_enabled, google_pse_enabled)
     \/ (Count(inv.trace, "search") > 0 /\ inv.search_results = << >>)) =>
        /\ Count(inv.trace, "query") > 0 =>
               /\ inv.sent.query = inv.original
               /\ Len(inv.sent.query) = Len(inv.original)
        /\ Count(inv.trace, "add_exchange") > 0 =>
               /\ inv.recorded.query = inv.original
               /\ LET h == HistOf(conversation_history, inv.session_id)
                  IN  h # << >> /\ h[Len(h)][1] = inv.original

\* The search was called, returned nothing, and the original query was sent and
\* recorded.
C12_Witness ==
    /\ inv.pc = "done"
    /\ Count(inv.trace, "search") = 1
    /\ inv.search_results = << >>
    /\ inv.sent.query = inv.original
    /\ inv.recorded.query = inv.original
    /\ inv.original # << >>

\* ------------------------------------------------ claims on the step order

IsPrefix(a, b) == Len(a) <= Len(b) /\ SubSeq(b, 1, Len(a)) = a

\* The calls of one invocation in the order the claim fixes: the search is
\* called exactly when it was requested and is_available() is true.
ExpectedTrace ==
    <<"get_context">>
      \o (IF inv.web_search /\ is_available(serpapi_enabled, google_pse_enabled)
          THEN <<"search">> ELSE << >>)
      \o <<"query", "add_exchange">>

\* C13: each pipeline invocation calls get_context, then -- only if the search
\* was requested and is_available() is true -- search once, then AIClient.query
\* once, then add_exchange once; search is never called when it was not
\* requested or is_available() is false.
C13_FixedOrder ==
    /\ IsPrefix(inv.trace, ExpectedTrace)
    /\ (inv.pc = "done" /\ RunsPipeline) => inv.trace = ExpectedTrace
    /\ Count(inv.trace, "search") > 0 =>
           inv.web_search /\ is_available(serpapi_enabled, google_pse_enabled)

\* ------------------------------------------------ claims on WebSearchClient

\* The results a backend's response turns into: one per item, in order.
ResultsOfItems(items, src) ==
    /\ Len(searchCall.results) = Len(items)
    /\ \A i \in 1..Len(items) :
           /\ searchCall.results[i].title = items[i].title
           /\ searchCall.results[i].snippet = items[i].snippet
           /\ searchCall.results[i].source = src

\* A backend yields results: it is enabled, does not fail and lists an item.
Yields(enabled, bo) == enabled /\ ~bo.raised /\ bo.items # << >>

\* C14: in "auto" mode search returns the primary's (SerpAPI's) results if it
\* yields any, without calling the secondary; if the primary yields none, also
\* because it failed, it calls the secondary (Google PSE) if enabled and returns
\* its results; if neither yields any (or neither is enabled) it returns []; it
\* raises for no backend outcome.
C14_AutoFallback ==
    searchCall.engine = "auto" =>
        /\ ~searchCall.raised
        /\ Yields(serpapi_enabled, searchCall.so) =>
               /\ ResultsOfItems(searchCall.so.items, "SerpAPI")
               /\ searchCall.backends = <<"serpapi">>
        /\ (~Yields(serpapi_enabled, searchCall.so) /\ google_pse_enabled) =>
               /\ searchCall.backends
                      = (IF serpapi_enabled THEN <<"serpapi">> ELSE << >>)
                            \o <<"google_pse">>
               /\ IF searchCall.po.raised THEN searchCall.results = << >>
                  ELSE ResultsOfItems(searchCall.po.items, "Google PSE")
        /\ (~Yields(serpapi_enabled, searchCall.so)
                /\ ~Yields(google_pse_enabled, searchCall.po)) =>
               searchCall.results = << >>
        /\ (~serpapi_enabled /\ ~google_pse_enabled) => searchCall.backends = << >>

\* The primary failed internally and the secondary's results were returned.
C14_Witness ==
    /\ searchCall.engine = "auto"
    /\ serpapi_enabled /\ google_pse_enabled
    /\ searchCall.so.raised
    /\ searchCall.backends = <<"serpapi", "google_pse">>
    /\ searchCall.results # << >>
    /\ searchCall.results[1].source = "Google PSE"

\* C15: for every query, engine mode and backend response, also one that lists
\* more than 5 items, search returns at most 5 results.
C15_AtMostFive == Len(searchCall.results) <= RequestedNum

\* ------------------------------------------------ claims on concurrent threads

\* The threads work on different session ids.
DistinctIds == threads["t1"].sid # threads["t2"].sid

\* C16: two concurrent invocations on different session ids do not interfere:
\* under every interleaving of the steps of get_context and add_exchange, the
\* context each invocation gets back, and each session's history once the
\* invocation is over, are what they are when the invocation runs alone.
C16_DistinctSessionsIsolated ==
    DistinctIds =>
        \A t \in Threads :
            /\ threads[t].pc \notin {"idle", "gc_check", "gc_load", "gc_slice"} =>
                   threads[t].context
                       = get_context(alone[t], max_history, threads[t].sid)
            /\ threads[t].pc = "idle" =>
                   /\ (threads[t].sid \in DOMAIN conversation_history)
                          = (threads[t].sid \in DOMAIN alone[t])
                   /\ HistOf(conversation_history, threads[t].sid)
                          = HistOf(alone[t], threads[t].sid)

\* The threads have finished overlapping invocations on different ids; the
\* second invocation of t1 had a context and trimmed its session's history.
C16_Witness ==
    /\ DistinctIds
    /\ overlapped
    /\ max_history = 1
    /\ \A t \in Threads : threads[t].pc = "idle" /\ threads[t].round >= 1
    /\ threads["t1"].round = 2
    /\ threads["t1"].context # << >>
    /\ threads["t1"].n = 2
    /\ conversation_history[threads["t1"].sid] = <<Exchange("t1", 2)>>
    /\ conversation_history[threads["t2"].sid] = <<Exchange("t2", 1)>>

\* ------------------------------------------------------ claims on start-up

\* C17: when no provider is enabled at start-up the entry point refuses to start,
\* so no pipeline invocation ever runs in a process without an enabled provider;
\* when at least one provider is enabled (others missing) the process starts.
C17_ZeroProvidersRefuseStart ==
    /\ get_available_providers(providers) = << >> =>
           /\ process = "exited"
           /\ started = 0
           /\ inv.pc = "idle"
    /\ get_available_providers(providers) # << >> => process \in {"app", "terminal"}

\* ------------------------------------------------ claims on document analysis

\* The invocation is a document analysis.
IsDocAnalysis == inv.handler \in {"api_analyze_document", "analyze_document"}

\* The file is missing or was not uploaded, or what follows the last dot of its
\* name is, in lower case, none of txt, pdf, docx.
Untakeable ==
    \/ ~inv.file.present
    \/ LET ext == get_extension(inv.file.path)
       IN  ext # <<"txt">> /\ ext # <<"pdf">> /\ ext # <<"docx">>

\* C18: a document analysis of a file that is missing, was not uploaded, or has
\* an extension outside {txt, pdf, docx} ends with an explicit error, not a text
\* answer; AIClient.query is not called and the memory is left as it was.
C18_BadDocumentRejected ==
    (IsDocAnalysis /\ Untakeable) =>
        /\ Count(inv.trace, "query") = 0
        /\ Count(inv.trace, "extract_text") = 0
        /\ Count(inv.trace, "add_exchange") = 0
        /\ inv.sent = NoSent
        /\ conversation_history = inv.history_before
        /\ inv.pc \in {"doc_check", "done"}
        /\ inv.pc = "done" =>
               /\ inv.result.error # << >>
               /\ ~inv.result.delivered
               /\ inv.result.response = << >>
               /\ inv.handler = "api_analyze_document" => inv.result.status = 400

\* An upload with an unsupported extension was refused while the memory held an
\* earlier exchange.
C18_Witness ==
    /\ IsDocAnalysis
    /\ inv.pc = "done"
    /\ inv.file.present
    /\ get_extension(inv.file.path) = <<"csv">>
    /\ inv.result.error = <<"Unsupported file type">>
    /\ inv.history_before # << >>
    /\ conversation_history = inv.history_before

\* ------------------------------------------------ claims on the registry

\* The credential of provider p is present, non-empty and not the placeholder.
RealCredential(p) == env[ProviderEnvKey(p)] \notin {None, "", "your_api_key_here"}

\* The ids of ids, in order, whose credential is real.
RECURSIVE WithRealCredential(_)
WithRealCredential(ids) ==
    IF ids = << >> THEN << >>
    ELSE (IF RealCredential(Head(ids)) THEN <<Head(ids)>> ELSE << >>)
             \o WithRealCredential(Tail(ids))

\* C19: every provider of the registry is enabled exactly when its credential is
\* present, non-empty and not a placeholder value, and get_available_providers
\* / list_providers return exactly those ids in registry order.
C19_EnabledIffCredential ==
    /\ \A i \in 1..Len(ProviderIds) :
           providers[ProviderIds[i]].enabled = RealCredential(ProviderIds[i])
    /\ get_available_providers(providers) = WithRealCredential(ProviderIds)
    /\ available_providers = WithRealCredential(AssistantProviderIds)

\* C19, last part: no operation after construction changes a provider's
\* configuration or its enabled flag.
C19_RegistryImmutable ==
    [][providers' = providers /\ available_providers' = available_providers]_vars

\* ------------------------------------------------ claims on lazy creation

\* C20 as stated: the first get_context call for an unseen id creates an empty
\* history for it, so after get_context(s) the memory holds an entry for s.
C20_GetContextCreates ==
    last.op = "get_context" =>
        /\ last.sid \in DOMAIN conversation_history
        /\ last.sid \notin seen => conversation_history[last.sid] = << >>

\* C20, amended: a session's history is created by add_exchange only;
\* get_context(s) for an id that holds no history returns "" and leaves the
\* memory without an entry for s, and after add_exchange(s, ..) the memory holds
\* an entry for s that contains the exchange.
C20_OnlyAddExchangeCreates ==
    /\ (last.op = "get_context" /\ last.sid \notin seen) =>
           /\ last.sid \notin DOMAIN conversation_history
           /\ last.ret = << >>
    /\ last.op = "add_exchange" =>
           /\ last.sid \in DOMAIN conversation_history
           /\ conversation_history[last.sid] # << >>
           /\ LET h == conversation_history[last.sid]
                  a == appended[last.sid]
              IN  h[Len(h)] = a[Len(a)]
    /\ DOMAIN conversation_history \subseteq seen

\* get_context was called for an id never passed to add_exchange while another
\* id holds a history: the id still has no entry.
C20_Witness ==
    /\ last.op = "get_context"
    /\ last.sid \notin seen
    /\ last.sid \notin DOMAIN conversation_history
    /\ conversation_history # << >>

\* ------------------------------------------------ claims on SDK initialisation

\* C21: over every sequence of start-up and pipeline invocations of a host,
\* genai.configure is called at most once in the process, and never when the
\* gemini provider is not enabled.
C21_ConfigureAtMostOnce ==
    /\ genai_configure_calls <= 1
    /\ env["GEMINI_API_KEY"] \in {None, ""} => genai_configure_calls = 0
    /\ ~providers["gemini"].enabled => genai_configure_calls = 0

\* A host has finished its second invocation, both answered by gemini, and
\* genai.configure has been called once.
C21_Witness ==
    /\ process \in {"app", "terminal"}
    /\ started >= 2
    /\ inv.pc = "done"
    /\ inv.sent.provider = "gemini"
    /\ inv.outcome.kind = "ok"
    /\ Len(HistOf(conversation_history, inv.session_id)) >= 2
    /\ genai_configure_calls = 1

\* ------------------------------------------------ claims on is_available

\* The environment key k is set to a non-empty value.
Configured(k) == env[k] # None /\ env[k] # ""

\* C22: is_available() is true exactly when a backend has all its credentials
\* (SERPAPI_API_KEY for SerpAPI; GOOGLE_PSE_ID and GOOGLE_API_KEY for Google
\* PSE); when it is false, search returns [] for every engine mode and calls no
\* backend.
C22_AvailableIffConfigured ==
    /\ is_available(serpapi_enabled, google_pse_enabled)
           = (\/ Configured("SERPAPI_API_KEY")
              \/ (Configured("GOOGLE_PSE_ID") /\ Configured("GOOGLE_API_KEY")))
    /\ (searchCall.engine # "" /\ ~is_available(serpapi_enabled, google_pse_enabled)) =>
           /\ ~searchCall.raised
           /\ searchCall.results = << >>
           /\ searchCall.backends = << >>

\* Google PSE has one of its two keys only, SerpAPI none: a search in a named
\* engine mode, whose backend would have answered, returned [].
C22_Witness ==
    /\ Configured("GOOGLE_PSE_ID")
    /\ ~Configured("GOOGLE_API_KEY")
    /\ env["SERPAPI_API_KEY"] = ""
    /\ ~is_available(serpapi_enabled, google_pse_enabled)
    /\ searchCall.engine = "google_pse"
    /\ ~searchCall.po.raised /\ searchCall.po.items # << >>
    /\ searchCall.results = << >>
    /\ searchCall.backends = << >>

\* ------------------------------------------------ claims on same-session races

\* x is an element of the list lst.
Holds(lst, x) == \E i \in 1..Len(lst) : lst[i] = x

\* C23: two invocations on the same session id race on the order of the appends
\* only: under every interleaving of the steps of add_exchange (membership
\* check, list creation, append, length check, trim), when the number of
\* exchanges stays at or below N, every exchange is in the session's history
\* once the calls have returned.
C23_SameSessionBothPresent ==
    (/\ ~DistinctIds
     /\ \A t \in Threads : threads[t].pc = "idle"
     /\ threads["t1"].round + threads["t2"].round <= max_history) =>
        \A t \in Threads : \A k \in 1..threads[t].round :
            /\ threads[t].sid \in DOMAIN conversation_history
            /\ Holds(conversation_history[threads[t].sid], Exchange(t, k))

\* ------------------------------------------------ claims on the terminal's state

\* C24: in the terminal assistant, after construction and after any sequence of
\* /websearch commands, use_web_search is true only if is_available() is true,
\* so process_query never calls search while no backend is configured.
C24_WebSearchOnlyIfAvailable ==
    process = "terminal" =>
        /\ use_web_search => is_available(serpapi_enabled, google_pse_enabled)
        /\ (inv.handler = "process_query" /\ Count(inv.trace, "search") > 0) =>
               is_available(serpapi_enabled, google_pse_enabled)

\* The provider id p is in the registry and enabled.
Enabled(p) == p \in DOMAIN providers /\ providers[p].enabled

\* The first enabled id of the registry; "" if there is none.
FirstEnabled ==
    IF \E i \in 1..Len(ProviderIds) : Enabled(ProviderIds[i])
    THEN ProviderIds[CHOOSE i \in 1..Len(ProviderIds) :
                         /\ Enabled(ProviderIds[i])
                         /\ \A j \in 1..(i - 1) : ~Enabled(ProviderIds[j])]
    ELSE ""

\* C25: in the terminal assistant current_provider is an enabled provider in
\* every reachable state: at construction it is the requested default if
\* enabled, else the first enabled provider; a /provider <name> command changes
\* it only to an enabled <name>; so process_query never gets the "is not
\* available" response.
C25_CurrentProviderEnabled ==
    /\ process = "terminal" =>
           \E dp \in {"deepseek", "openai"} :
               current_provider = IF Enabled(dp) THEN dp ELSE FirstEnabled
    /\ [](process = "terminal" =>
              /\ Enabled(current_provider)
              /\ HasCredential(current_provider)
              /\ (inv.handler = "process_query" /\ Count(inv.trace, "query") > 0) =>
                     /\ inv.sent.provider = current_provider
                     /\ inv.response
                            # <<"Provider '", inv.sent.provider, "' is not available.">>)
    /\ [][current_provider' # current_provider =>
              /\ Enabled(current_provider')
              /\ current_provider' \in {"deepseek", "openai", "llama"}
              /\ inv' = NoInvocation]_vars

\* The second query of a terminal session was answered by openai while deepseek
\* is enabled as well.
C25_Witness ==
    /\ process = "terminal"
    /\ started >= 2
    /\ inv.handler = "process_query"
    /\ inv.pc = "done"
    /\ current_provider = "openai"
    /\ inv.sent.provider = "openai"
    /\ inv.response = AnswerText
    /\ Enabled("deepseek")

\* seq without its last element.
Front(seq) == SubSeq(seq, 1, Len(seq) - 1)

\* The exchanges the earlier invocations of the session of inv have recorded
\* since the session began (or was cleared), oldest first.
EarlierExchanges ==
    IF Count(inv.trace, "add_exchange") > 0 THEN Front(appended[inv.session_id])
    ELSE appended[inv.session_id]

\* C26: in sequential pipeline invocations on one session, the context passed to
\* the provider by the i-th invocation is the rendering of exactly the
\* min(i-1, N) most recent exchanges the earlier invocations recorded; it never
\* contains the exchange of the invocation in progress, and it is empty in the
\* first invocation.
C26_ContextIsEarlierExchanges ==
    (inv.handler \in {"api_research", "process_query"}
         /\ Count(inv.trace, "query") > 0) =>
        LET n == Min(Len(EarlierExchanges), max_history)
        IN  /\ inv.sent.context = Render(LastN(EarlierExchanges, n))
            /\ EarlierExchanges = << >> => inv.sent.context = << >>
            /\ \A k \in 1..Len(inv.sent.context) :
                   inv.sent.context[k] # inv.query[2]

\* The twelfth invocation in a row has recorded its exchange; eleven were
\* recorded before it and its context rendered the ten most recent of them.
C26_Witness ==
    /\ inv.handler \in {"api_research", "process_query"}
    /\ inv.pc = "done"
    /\ started = DefaultMaxHistory + 2
    /\ Len(appended[inv.session_id]) = DefaultMaxHistory + 2
    /\ Len(EarlierExchanges) = DefaultMaxHistory + 1
    /\ inv.sent.context = Render(LastN(EarlierExchanges, DefaultMaxHistory))
    /\ inv.sent.context # Render(EarlierExchanges)

\* The tokens of the prompt sent to the provider that are tokens of the
\* extracted text, in the prompt's order.
TextInPrompt ==
    LET InText(t) == \E i \in 1..Len(inv.text) : inv.text[i] = t
    IN  SelectSeq(inv.sent.query, InText)

\* "Document analysis query: <query>", plus the file name in the terminal host.
ShortLabel ==
    IF inv.handler = "analyze_document"
    THEN <<"Document analysis query: ">> \o inv.original
             \o <<" for file: ">> \o Basename(inv.file.path)
    ELSE <<"Document analysis query: ">> \o inv.original

\* C27: a successful document analysis sends the provider a prompt holding at
\* most the first 4000 characters of the extracted text, and appends exactly one
\* exchange to the session, whose query side is the short label and never the
\* document text or the prompt.
C27_DocumentPromptAndLabel ==
    (IsDocAnalysis /\ inv.pc = "done" /\ inv.result.delivered) =>
        /\ Count(inv.trace, "query") = 1
        /\ Len(TextInPrompt) * BlockChars <= SliceChars
        /\ TextInPrompt = SubSeq(inv.text, 1, Len(TextInPrompt))
        /\ Count(inv.trace, "add_exchange") = 1
        /\ DOMAIN conversation_history = DOMAIN inv.history_before \cup {inv.session_id}
        /\ \A s \in DOMAIN conversation_history :
               conversation_history[s] =
                   IF s = inv.session_id
                   THEN Append(inv.before, <<ShortLabel, inv.response>>)
                   ELSE inv.history_before[s]
        /\ inv.recorded.query = ShortLabel
        /\ ShortLabel # inv.sent.query
        /\ ShortLabel # inv.text
        /\ \A k \in 1..Len(ShortLabel), i \in 1..Len(inv.text) :
               ShortLabel[k] # inv.text[i]

\* The terminal analysed a document of five text blocks with a query given, in
\* a session that held an exchange: four blocks went into the prompt.
C27_Witness ==
    /\ inv.handler = "analyze_document"
    /\ inv.pc = "done"
    /\ inv.result.delivered
    /\ inv.text = Blocks(5)
    /\ TextInPrompt = Blocks(4)
    /\ inv.original = <<"q1">>
    /\ inv.response = AnswerText
    /\ inv.before # << >>
    /\ Len(conversation_history[inv.session_id]) = 2

====
